---- MODULE Spec2Model ----
(***************************************************************************)
(* On-demand image transformation pipeline: the image-processing handler  *)
(* in its two deployment variants, and the edge request normalizer.        *)
(*   "multi" : src/functions/image-processing/index.mjs (buckets taken    *)
(*             from the descriptor's routing keys)                         *)
(*   "fixed" : src/unnamed/part_000 (buckets taken from the environment)   *)
(*   edge    : src/unnamed/part_001 (the viewer-request function)          *)
(*                                                                         *)
(* JavaScript strings are modelled as sequences of tokens.  The           *)
(* separators "/", ",", "=", "." and the decimal digits are tokens of      *)
(* their own, so that split, join, concatenation and parseInt are computed *)
(* as the code computes them; every other token is an opaque run of        *)
(* characters containing no separator and no digit.                        *)
(***************************************************************************)
EXTENDS Integers, Sequences, FiniteSets, TLC

VARIABLES
    config,             \* process environment: handler variant and configured destination bucket
    pc,                 \* position of the handler (its await points)
    event,              \* the event of the request being handled
    originalImagePath,  \* var originalImagePath
    operationsPrefix,   \* var operationsPrefix
    operationsJSON,     \* const operationsJSON (the multi variant mutates it through picturePath)
    originalBucket,     \* var originalBucket (multi variant)
    transformedBucket,  \* var transformedBucket (multi variant)
    transformedBucketRegion, \* var transformedBucketRegion (multi variant)
    response,           \* var response
    timingLog,          \* var timingLog
    contentType,        \* let contentType
    imageMetadata,      \* const imageMetadata (its orientation field)
    transformedImage,   \* let transformedImage: the staged Sharp pipeline
    byteLength,         \* var transformedImageByteLength
    key,                \* var key
    calls,              \* S3 commands sent by the current request, in order
    settled,            \* awaited steps of the current request that resolved or rejected, in order
    outcome,            \* how the current request ended: "none", "response" or "exception"
    result,             \* the response envelope returned by the handler
    putLog,             \* objects persisted in the destination stores so far
    regionalClients,    \* S3Client objects built by 'new S3Client({ region })' so far
    requests,           \* number of requests received so far
    edgePc,             \* position of the edge function: "idle" or "returned"
    edgeEvent,          \* the viewer request given to the edge function
    normalizedOperations,       \* var normalizedOperations
    normalizedOperationsArray,  \* var normalizedOperationsArray
    request             \* the request returned by the edge function

vars == <<config, pc, event, originalImagePath, operationsPrefix, operationsJSON,
          originalBucket, transformedBucket, transformedBucketRegion, response,
          timingLog, contentType, imageMetadata, transformedImage, byteLength,
          key, calls, settled, outcome, result, putLog, regionalClients, requests,
          edgePc, edgeEvent, normalizedOperations, normalizedOperationsArray, request>>

edgeVars == <<edgePc, edgeEvent, normalizedOperations, normalizedOperationsArray, request>>

handlerVars == <<config, pc, event, originalImagePath, operationsPrefix, operationsJSON,
                 originalBucket, transformedBucket, transformedBucketRegion, response,
                 timingLog, contentType, imageMetadata, transformedImage, byteLength,
                 key, calls, settled, outcome, result, putLog, regionalClients, requests>>

locals == <<originalImagePath, operationsPrefix, operationsJSON, originalBucket,
            transformedBucket, transformedBucketRegion, response, timingLog,
            contentType, imageMetadata, transformedImage, byteLength, key>>

----------------------------------------------------------------------------
(* Bounds of the model *)

MaxRequests == 2    \* requests handled in one behaviour
MaxDur == 1         \* largest phase duration (ms) the clock reports

----------------------------------------------------------------------------
(* JavaScript values *)

Undefined == <<"<undefined>">>
Null == <<"<null>">>
EmptyString == <<>>
EmptyObject == <<>>

\* JavaScript truthiness of a string-or-undefined value
Truthy(v) == v # Undefined /\ v # Null /\ v # EmptyString

\* String(v) as applied by the + operator to a string-or-undefined operand
ToStr(v) == IF v = Undefined THEN <<"undefined">>
            ELSE IF v = Null THEN <<"null">> ELSE v

\* String(obj) of a plain object
ObjectToString(obj) == <<"[object Object]">>

RECURSIVE NatToStr(_)
NatToStr(n) == IF n < 10 THEN <<ToString(n)>>
               ELSE NatToStr(n \div 10) \o <<ToString(n % 10)>>

\* String(n) of an integer, in decimal digits
NumToStr(n) == IF n < 0 THEN <<"-">> \o NatToStr(0 - n) ELSE NatToStr(n)

RECURSIVE SplitFrom(_, _, _, _, _)
SplitFrom(s, sep, i, cur, acc) ==
    IF i > Len(s) THEN Append(acc, cur)
    ELSE IF s[i] = sep THEN SplitFrom(s, sep, i + 1, <<>>, Append(acc, cur))
    ELSE SplitFrom(s, sep, i + 1, Append(cur, s[i]), acc)

\* String.prototype.split(sep)
Split(s, sep) == SplitFrom(s, sep, 1, <<>>, <<>>)

RECURSIVE Join(_, _)
\* Array.prototype.join(sep)
Join(parts, sep) ==
    IF Len(parts) = 0 THEN <<>>
    ELSE IF Len(parts) = 1 THEN parts[1]
    ELSE parts[1] \o <<sep>> \o Join(Tail(parts), sep)

\* Array.prototype.pop / shift: the array that is left
Popped(arr) == SubSeq(arr, 1, Len(arr) - 1)
Shifted(arr) == SubSeq(arr, 2, Len(arr))

\* Object.fromEntries(entries): entry[0] is the key, entry[1] the value
\* (undefined when the fragment had no '='); a later entry overwrites.
FromEntries(entries) ==
    LET keys == {entries[i][1] : i \in 1..Len(entries)}
        last(k) == CHOOSE i \in 1..Len(entries) :
                      /\ entries[i][1] = k
                      /\ \A j \in 1..Len(entries) : entries[j][1] = k => j <= i
    IN [k \in keys |-> IF Len(entries[last(k)]) >= 2 THEN entries[last(k)][2]
                       ELSE Undefined]

\* obj[name]
Get(obj, name) == IF name \in DOMAIN obj THEN obj[name] ELSE Undefined

\* delete obj[name]
Delete(obj, name) == [k \in (DOMAIN obj) \ {name} |-> obj[k]]

\* obj[name] = v
Put(obj, name, v) == [k \in (DOMAIN obj) \cup {name} |-> IF k = name THEN v ELSE obj[k]]

Digit == {"0", "1", "2", "3", "4", "5", "6", "7", "8", "9"}
DigitVal(d) == CHOOSE n \in 0..9 : ToString(n) = d

RECURSIVE DigitRun(_, _, _, _)
DigitRun(s, i, n, seen) ==
    IF i <= Len(s) /\ s[i] \in Digit
    THEN DigitRun(s, i + 1, 10 * n + DigitVal(s[i]), TRUE)
    ELSE [nan |-> ~seen, val |-> n]

\* parseInt(s): optional sign, then the longest run of digits; NaN if none
ParseInt(s) ==
    IF Len(s) >= 1 /\ s[1] = "-"
    THEN LET r == DigitRun(s, 2, 0, FALSE) IN [nan |-> r.nan, val |-> 0 - r.val]
    ELSE IF Len(s) >= 1 /\ s[1] = "+" THEN DigitRun(s, 2, 0, FALSE)
    ELSE DigitRun(s, 1, 0, FALSE)

----------------------------------------------------------------------------
(* Process configuration *)

SECRET_KEY == <<"secret">>
MAX_IMAGE_SIZE == 4700000
S3_ORIGINAL_IMAGE_BUCKET == <<"original-bucket">>
TRANSFORMED_IMAGE_CACHE_TTL == <<"max-age", "=", "3", "1", "6", "2", "2", "4", "0", "0">>

Configs ==
    { [variant |-> "multi", transformedBucket |-> Undefined],
      [variant |-> "fixed", transformedBucket |-> <<"transformed-bucket">>],
      [variant |-> "fixed", transformedBucket |-> Undefined] }

\* const S3_TRANSFORMED_IMAGE_BUCKET = process.env.transformedImageBucketName
S3_TRANSFORMED_IMAGE_BUCKET == config.transformedBucket

----------------------------------------------------------------------------
(* Requests *)

RoutingKeys == {<<"fromBucket">>, <<"toBucket">>, <<"toBucketRegion">>}

W100 == <<"width", "=", "1", "0", "0">>
W200 == <<"width", "=", "2", "0", "0">>
FromA == <<"fromBucket", "=", "a">>
ToB == <<"toBucket", "=", "b">>

Descriptors ==
    { <<"original">>,
      W100,
      W200,
      FromA \o <<",">> \o ToB \o <<",">> \o W100,
      FromA \o <<",">> \o ToB \o <<",">> \o W200,
      FromA \o <<",">> \o ToB \o <<",", "toBucketRegion", "=", "eu", ",">>
            \o <<"format", "=", "png", ",", "quality", "=", "5", "0">>,
      FromA \o <<",">> \o W100,
      <<"original", ",">> \o FromA \o <<",">> \o ToB,
      <<"format", "=", "jpeg", ",", "quality", "=", "8", "0">>,
      <<"format", "=", "svg", ",", "quality", "=", "5", "0">> }

OriginalKeys == { <<"images", "/", "a", ".", "jpg">>, <<"b", ".", "png">> }

Paths == { <<"/">> \o k \o <<"/">> \o d : k \in OriginalKeys, d \in Descriptors }

\* event.headers['x-origin-secret-header']
SecretHeaders == { Undefined, EmptyString, <<"wrong">>, SECRET_KEY }

\* event.requestContext.http.method; Undefined stands for an event without
\* requestContext or without requestContext.http
Methods == { Undefined, <<"GET">>, <<"POST">> }

Durations == 0..MaxDur
ContentTypes == { <<"image", "/", "jpeg">>, <<"image", "/", "png">> }
NoOrientation == 0
Orientations == { NoOrientation, 1, 6 }
ByteLengths == { MAX_IMAGE_SIZE - 1, MAX_IMAGE_SIZE, MAX_IMAGE_SIZE + 1 }

----------------------------------------------------------------------------
(* The handler *)

JsString(s) == [type |-> "string", val |-> s]
JsObject(o) == [type |-> "object", val |-> o]

\* sendError with the typeof test lost: the body is always wrapped as a message
sendError_AlwaysWrapped(statusCode, body, log) ==
    [ statusCode |-> statusCode,
      body |-> [error |-> body.val],
      headers |-> [ContentType |-> "application/json", ServerTiming |-> log] ]

\* function sendError(statusCode, body, timingLog)
sendError(statusCode, body, log) ==
    [ statusCode |-> statusCode,
      body |-> IF body.type = "object" THEN body.val ELSE [error |-> body.val],
      headers |-> [ContentType |-> "application/json", ServerTiming |-> log] ]

\* the object returned on the success path
sendOk(body, log) ==
    [ statusCode |-> 200,
      body |-> body,
      headers |-> [ContentType |-> "application/json", ServerTiming |-> log] ]

NoResult == [ statusCode |-> 0, body |-> EmptyObject,
              headers |-> [ContentType |-> "", ServerTiming |-> Null] ]

\* the entry check with the comparison against SECRET_KEY lost
Authorized_PresenceOnly(header) == Truthy(header)

\* !event.headers[...] || !(event.headers[...] === SECRET_KEY) is false
Authorized(header) == Truthy(header) /\ header = SECRET_KEY

\* the entry check with the method comparison lost
IsGet_AnyMethod(method) == method # Undefined

\* !event.requestContext || !event.requestContext.http || !(method === 'GET') is false
IsGet(method) == method # Undefined /\ method = <<"GET">>

\* event.requestContext.http.path.split('/'), pop() and shift(), join('/')
PathOperationsPrefix(path) ==
    LET imagePathArray == Split(path, "/") IN imagePathArray[Len(imagePathArray)]

PathOriginalImagePath(path) ==
    LET imagePathArray == Split(path, "/") IN Join(Shifted(Popped(imagePathArray)), "/")

\* Object.fromEntries(operationsPrefix.split(',').map(operation => operation.split('=')))
DecodeOperations(prefix) ==
    LET fragments == Split(prefix, ",")
    IN FromEntries([i \in 1..Len(fragments) |-> Split(fragments[i], "=")])

\* the destination check lost
MissingTransformedBucket_Never(bucket) == FALSE

\* if (!transformedBucket)
MissingTransformedBucket(bucket) == ~Truthy(bucket)

\* the size check off by one
ImageTooBig_OffByOne(len) == len > MAX_IMAGE_SIZE + 1

\* const imageTooBig = transformedImageByteLength > MAX_IMAGE_SIZE
ImageTooBig(len) == len > MAX_IMAGE_SIZE

\* the upload guard without the destination check
ShouldUpload_IgnoreBucket(bucket, tooBig) == ~tooBig

\* the upload guard without the size check
ShouldUpload_IgnoreSize(bucket, tooBig) == Truthy(bucket)

\* if (transformedBucket && !imageTooBig) / if (S3_TRANSFORMED_IMAGE_BUCKET && !imageTooBig)
ShouldUpload(bucket, tooBig) == Truthy(bucket) /\ ~tooBig

\* 'img-download;dur=' + parseInt(performance.now() - startTime)
DownloadTiming(d) == <<"img-download;dur", "=">> \o NumToStr(d)

\* the transform entry replacing the log instead of extending it
TransformTiming_Overwrite(log, d) == <<"img-transform;dur", "=">> \o NumToStr(d)

\* timingLog + ',img-transform;dur=' + parseInt(performance.now() - startTime)
TransformTiming(log, d) == log \o <<",", "img-transform;dur", "=">> \o NumToStr(d)

\* timingLog + ',img-upload;dur=' + parseInt(performance.now() - startTime)
UploadTiming(log, d) == log \o <<",", "img-upload;dur", "=">> \o NumToStr(d)

DownloadErrorMessage == <<"Unexpected error during original image downloading">>
TransformErrorMessage == <<"Unexpected error during image transformation">>
NoBucketErrorMessage == <<"Transformed bucket not found !">>

TooBigErrorMessage(len) ==
    <<"Requested transformed image is too big. (max: ">> \o NumToStr(MAX_IMAGE_SIZE)
        \o <<" bytes, actual: ">> \o NumToStr(len) \o <<" bytes)">>

\* the upload error message without the destination key
UploadErrorMessage_NoKey(variant, bucket, region, k) ==
    <<"Could not upload transformed image to S3 : ">> \o ToStr(bucket)

UploadErrorMessage(variant, bucket, region, k) ==
    IF variant = "multi"
    THEN <<"Could not upload transformed image in S3 bucket : ">> \o ToStr(bucket)
            \o <<", region : ">> \o (IF region = Undefined THEN <<"default">> ELSE region)
            \o <<", key :">> \o k
    ELSE <<"Could not upload transformed image to S3 : ">> \o ToStr(bucket) \o <<"/">> \o k

\* the bucket the result is written to
DestinationBucket == IF config.variant = "multi" THEN transformedBucket
                     ELSE S3_TRANSFORMED_IMAGE_BUCKET

\* var key = originalImagePath + '/' + picturePath     (multi: picturePath is an object)
\* var key = originalImagePath + '/' + operationsPrefix (fixed)
DestinationKey(variant, path, prefix, picturePath) ==
    IF variant = "multi" THEN path \o <<"/">> \o ObjectToString(picturePath)
    ELSE path \o <<"/">> \o prefix

\* delete picturePath["fromBucket"]; delete picturePath["toBucket"]; delete picturePath["toBucketRegion"]
StripRouting(ops) ==
    Delete(Delete(Delete(ops, <<"fromBucket">>), <<"toBucket">>), <<"toBucketRegion">>)

\* the success response keeping the original key
UploadedResponse_OriginalKey(variant, bucket, k) ==
    IF variant = "multi" THEN [bucket |-> bucket, key |-> originalImagePath, transformed |-> TRUE]
    ELSE [bucket |-> bucket, key |-> originalImagePath]

\* response = { bucket: ..., key: key, transformed: true } / { bucket: ..., key: key }
UploadedResponse(variant, bucket, k) ==
    IF variant = "multi" THEN [bucket |-> bucket, key |-> k, transformed |-> TRUE]
    ELSE [bucket |-> bucket, key |-> k]

\* initialize default response object (original image)
OriginalResponse(variant, bucket, path) ==
    IF variant = "multi" THEN [bucket |-> bucket, key |-> path, transformed |-> FALSE]
    ELSE [bucket |-> bucket, key |-> path]

\* the Sharp pipeline staged between metadata() and toBuffer()
ResizingOptions(ops) ==
    [ k \in { d \in {"width", "height"} : Truthy(Get(ops, <<d>>)) } |->
        ParseInt(Get(ops, <<k>>)) ]

Lossy == { <<"jpeg">>, <<"webp">>, <<"avif">> }
KnownFormats == { <<"jpeg">>, <<"gif">>, <<"webp">>, <<"png">>, <<"avif">> }

FormatContentType(format) ==
    IF format \in KnownFormats THEN <<"image", "/">> \o format ELSE <<"image", "/", "jpeg">>

FormatIsLossy(format) == format \in Lossy \/ format \notin KnownFormats

\* the pipeline rotating only for an orientation other than the default 1
StagePipeline_RotateNonDefault(image, ops, orientation) ==
    image
    \o << [op |-> "resize", options |-> ResizingOptions(ops)] >>
    \o (IF orientation \notin {NoOrientation, 1} THEN << [op |-> "rotate"] >> ELSE <<>>)
    \o (IF Truthy(Get(ops, <<"format">>))
        THEN IF Truthy(Get(ops, <<"quality">>)) /\ FormatIsLossy(Get(ops, <<"format">>))
             THEN << [op |-> "toFormat", format |-> Get(ops, <<"format">>),
                      options |-> [quality |-> ParseInt(Get(ops, <<"quality">>))]] >>
             ELSE << [op |-> "toFormat", format |-> Get(ops, <<"format">>),
                      options |-> EmptyObject] >>
        ELSE <<>>)

\* resize(resizingOptions); if (imageMetadata.orientation) rotate(); toFormat(...)
StagePipeline(image, ops, orientation) ==
    image
    \o << [op |-> "resize", options |-> ResizingOptions(ops)] >>
    \o (IF orientation # NoOrientation THEN << [op |-> "rotate"] >> ELSE <<>>)
    \o (IF Truthy(Get(ops, <<"format">>))
        THEN IF Truthy(Get(ops, <<"quality">>)) /\ FormatIsLossy(Get(ops, <<"format">>))
             THEN << [op |-> "toFormat", format |-> Get(ops, <<"format">>),
                      options |-> [quality |-> ParseInt(Get(ops, <<"quality">>))]] >>
             ELSE << [op |-> "toFormat", format |-> Get(ops, <<"format">>),
                      options |-> EmptyObject] >>
        ELSE <<>>)

StagedContentType(ct, ops) ==
    IF Truthy(Get(ops, <<"format">>)) THEN FormatContentType(Get(ops, <<"format">>)) ELSE ct

----------------------------------------------------------------------------
(* State machine of one handler invocation; requests are handled one at   *)
(* a time by one execution context.                                        *)

LocalsInit ==
    /\ originalImagePath = EmptyString
    /\ operationsPrefix = EmptyString
    /\ operationsJSON = EmptyObject
    /\ originalBucket = Undefined
    /\ transformedBucket = Undefined
    /\ transformedBucketRegion = Undefined
    /\ response = EmptyObject
    /\ timingLog = EmptyString
    /\ contentType = Undefined
    /\ imageMetadata = NoOrientation
    /\ transformedImage = <<>>
    /\ byteLength = 0
    /\ key = Undefined

\* the viewer request before any event, and the request before any return
NoEdgeEvent == [uri |-> EmptyString, hasQuerystring |-> FALSE, querystring |-> <<>>,
                accept |-> Undefined]
NoRequest == [uri |-> EmptyString, querystring |-> Undefined]

EdgeIdle ==
    /\ edgePc = "idle"
    /\ edgeEvent = NoEdgeEvent
    /\ normalizedOperations = EmptyObject
    /\ normalizedOperationsArray = <<>>
    /\ request = NoRequest

Init ==
    /\ EdgeIdle
    /\ config \in Configs
    /\ pc = "idle"
    /\ event = [header |-> Undefined, method |-> Undefined, path |-> EmptyString]
    /\ LocalsInit
    /\ calls = <<>>
    /\ settled = <<>>
    /\ outcome = "none"
    /\ result = NoResult
    /\ putLog = {}
    /\ regionalClients = <<>>
    /\ requests = 0

\* return <envelope>
Return(envelope) ==
    /\ pc' = "done"
    /\ outcome' = "response"
    /\ result' = envelope

\* an exception leaves the handler
Throw ==
    /\ pc' = "done"
    /\ outcome' = "exception"
    /\ result' = NoResult

\* the awaited promise of a step resolves (ok) or rejects
Settle(step, ok) == settled' = Append(settled, [step |-> step, ok |-> ok])

\* s3Client.send(new GetObjectCommand({ Bucket, Key }))
GetObjectCommand(bucket, k) ==
    [op |-> "GetObject", client |-> <<"default">>, Bucket |-> bucket, Key |-> k]

\* regionalS3Client.send(new PutObjectCommand({ Body, Bucket, Key, ContentType, Metadata, ACL }))
PutObjectCommand(client, bucket, k, ct) ==
    [op |-> "PutObject", client |-> client, Bucket |-> bucket, Key |-> k,
     ContentType |-> ct, CacheControl |-> TRANSFORMED_IMAGE_CACHE_TTL, ACL |-> "public-read"]

\* the upload always sent through the shared client
UploadClient_AlwaysDefault(variant, region) == <<"default">>

\* var regionalS3Client = s3Client; if (transformedBucketRegion) regionalS3Client = ...
UploadClient(variant, region) ==
    IF variant = "multi" /\ Truthy(region) THEN region ELSE <<"default">>

\* new S3Client({ region: transformedBucketRegion }): the clients built so far, with
\* the one request number n builds when its descriptor carries toBucketRegion
NewRegionalClients(created, variant, region, n) ==
    IF variant = "multi" /\ Truthy(region)
    THEN Append(created, [request |-> n, region |-> region])
    ELSE created

\* Entry of the handler up to its first await: the two entry checks, the
\* decoding of the path and, in the multi variant, of the descriptor and
\* the destination check; then the GetObject command is sent.
HandlerEntry ==
    /\ pc = "idle"
    /\ requests < MaxRequests
    /\ requests' = requests + 1
    /\ \E header \in SecretHeaders, method \in Methods, path \in Paths :
        /\ event' = [header |-> header, method |-> method, path |-> path]
        /\ IF ~Authorized(header)
           THEN /\ Return(sendError(403, JsString(<<"Request unauthorized">>), Null))
                /\ UNCHANGED <<locals, calls>>
           ELSE IF ~IsGet(method)
           THEN /\ Return(sendError(400, JsString(<<"Bad Request">>), Null))
                /\ UNCHANGED <<locals, calls>>
           ELSE
             LET prefix == PathOperationsPrefix(path)
                 imagePath == PathOriginalImagePath(path)
             IN
             /\ operationsPrefix' = prefix
             /\ originalImagePath' = imagePath
             /\ timingLog' = EmptyString
             /\ UNCHANGED <<contentType, imageMetadata, transformedImage, byteLength, key>>
             /\ IF config.variant = "multi"
                THEN LET ops == DecodeOperations(prefix)
                         resp == OriginalResponse("multi", Get(ops, <<"fromBucket">>), imagePath)
                     IN
                     /\ operationsJSON' = ops
                     /\ originalBucket' = Get(ops, <<"fromBucket">>)
                     /\ transformedBucket' = Get(ops, <<"toBucket">>)
                     /\ transformedBucketRegion' = Get(ops, <<"toBucketRegion">>)
                     /\ IF MissingTransformedBucket(Get(ops, <<"toBucket">>))
                        THEN /\ response' = Put(resp, "error", NoBucketErrorMessage)
                             /\ Return(sendError(500, JsObject(response'), EmptyString))
                             /\ UNCHANGED calls
                        ELSE /\ response' = resp
                             /\ calls' = Append(calls,
                                    GetObjectCommand(Get(ops, <<"fromBucket">>), imagePath))
                             /\ pc' = "GetObject"
                             /\ UNCHANGED <<outcome, result>>
                ELSE /\ response' = OriginalResponse("fixed", S3_ORIGINAL_IMAGE_BUCKET, imagePath)
                     /\ calls' = Append(calls,
                            GetObjectCommand(S3_ORIGINAL_IMAGE_BUCKET, imagePath))
                     /\ pc' = "GetObject"
                     /\ UNCHANGED <<operationsJSON, originalBucket, transformedBucket,
                                    transformedBucketRegion, outcome, result>>
    /\ UNCHANGED <<edgeVars, config, settled, putLog, regionalClients>>

\* await s3Client.send(getOriginalImageCommand) rejects: the catch block
GetObjectFail ==
    /\ pc = "GetObject"
    /\ Settle("GetObject", FALSE)
    /\ \E d \in Durations :
        /\ response' = Put(response, "error", DownloadErrorMessage)
        /\ timingLog' = DownloadTiming(d)
        /\ Return(sendError(500, JsObject(response'), timingLog'))
    /\ UNCHANGED <<edgeVars, config, event, originalImagePath, operationsPrefix, operationsJSON,
                   originalBucket, transformedBucket, transformedBucketRegion, contentType,
                   imageMetadata, transformedImage, byteLength, key, calls, putLog, regionalClients, requests>>

\* await s3Client.send(getOriginalImageCommand) resolves; the body read is
\* started (Body.transformToByteArray()) and awaited outside the try block
GetObjectOk ==
    /\ pc = "GetObject"
    /\ Settle("GetObject", TRUE)
    /\ \E ct \in ContentTypes : contentType' = ct
    /\ pc' = "Body"
    /\ UNCHANGED <<edgeVars, config, event, originalImagePath, operationsPrefix, operationsJSON,
                   originalBucket, transformedBucket, transformedBucketRegion, response,
                   timingLog, imageMetadata, transformedImage, byteLength, key, calls,
                   outcome, result, putLog, regionalClients, requests>>

\* await originalImageBody rejects: no try block encloses it
BodyFail ==
    /\ pc = "Body"
    /\ Settle("Body", FALSE)
    /\ Throw
    /\ UNCHANGED <<edgeVars, config, event, locals, calls, putLog, regionalClients, requests>>

\* await originalImageBody resolves; Sharp(...) is built and metadata() is called
BodyOk ==
    /\ pc = "Body"
    /\ Settle("Body", TRUE)
    /\ transformedImage' = << [op |-> "Sharp", failOn |-> "none", animated |-> TRUE] >>
    /\ pc' = "Metadata"
    /\ UNCHANGED <<edgeVars, config, event, originalImagePath, operationsPrefix, operationsJSON,
                   originalBucket, transformedBucket, transformedBucketRegion, response,
                   timingLog, contentType, imageMetadata, byteLength, key, calls,
                   outcome, result, putLog, regionalClients, requests>>

\* await transformedImage.metadata() rejects: no try block encloses it
MetadataFail ==
    /\ pc = "Metadata"
    /\ Settle("Metadata", FALSE)
    /\ Throw
    /\ UNCHANGED <<edgeVars, config, event, locals, calls, putLog, regionalClients, requests>>

\* await transformedImage.metadata() resolves; the download phase is timed,
\* the pipeline is staged and toBuffer() is called
MetadataOk ==
    /\ pc = "Metadata"
    /\ Settle("Metadata", TRUE)
    /\ \E orientation \in Orientations, d \in Durations :
        LET ops == IF config.variant = "fixed" THEN DecodeOperations(operationsPrefix)
                   ELSE operationsJSON
        IN
        /\ imageMetadata' = orientation
        /\ operationsJSON' = ops
        /\ timingLog' = DownloadTiming(d)
        /\ transformedImage' = StagePipeline(transformedImage, ops, orientation)
        /\ contentType' = StagedContentType(contentType, ops)
    /\ pc' = "ToBuffer"
    /\ UNCHANGED <<edgeVars, config, event, originalImagePath, operationsPrefix, originalBucket,
                   transformedBucket, transformedBucketRegion, response, byteLength, key,
                   calls, outcome, result, putLog, regionalClients, requests>>

\* the try block around the transform throws: its catch block
ToBufferFail ==
    /\ pc = "ToBuffer"
    /\ Settle("ToBuffer", FALSE)
    /\ \E d \in Durations :
        /\ response' = Put(response, "error", TransformErrorMessage)
        /\ timingLog' = TransformTiming(timingLog, d)
        /\ Return(sendError(500, JsObject(response'), timingLog'))
    /\ UNCHANGED <<edgeVars, config, event, originalImagePath, operationsPrefix, operationsJSON,
                   originalBucket, transformedBucket, transformedBucketRegion, contentType,
                   imageMetadata, transformedImage, byteLength, key, calls, putLog, regionalClients, requests>>

\* the tail of the handler: 413 if the image is too big, else 200
Finish(resp, log, len) ==
    IF ImageTooBig(len)
    THEN /\ response' = Put(resp, "error", TooBigErrorMessage(len))
         /\ Return(sendError(413, JsObject(response'), log))
    ELSE /\ response' = resp
         /\ Return(sendOk(resp, log))

\* await transformedImage.toBuffer() resolves; the size check, and either
\* the PutObject command is sent or the handler returns
ToBufferOk ==
    /\ pc = "ToBuffer"
    /\ Settle("ToBuffer", TRUE)
    /\ \E len \in ByteLengths, d \in Durations :
        /\ byteLength' = len
        /\ timingLog' = TransformTiming(timingLog, d)
        /\ IF ShouldUpload(DestinationBucket, ImageTooBig(len))
           THEN LET picturePath == StripRouting(operationsJSON)
                    k == DestinationKey(config.variant, originalImagePath,
                                        operationsPrefix, picturePath)
                IN
                /\ operationsJSON' = IF config.variant = "multi" THEN picturePath
                                     ELSE operationsJSON
                /\ key' = k
                /\ calls' = Append(calls,
                       PutObjectCommand(UploadClient(config.variant, transformedBucketRegion),
                                        DestinationBucket, k, contentType))
                /\ regionalClients' = NewRegionalClients(regionalClients, config.variant,
                                                          transformedBucketRegion, requests)
                /\ pc' = "PutObject"
                /\ UNCHANGED <<response, outcome, result>>
           ELSE /\ Finish(response, timingLog', len)
                /\ UNCHANGED <<operationsJSON, key, calls, regionalClients>>
    /\ UNCHANGED <<edgeVars, config, event, originalImagePath, operationsPrefix, originalBucket,
                   transformedBucket, transformedBucketRegion, contentType, imageMetadata,
                   transformedImage, putLog, requests>>

\* await regionalS3Client.send(putImageCommand) resolves
PutObjectOk ==
    /\ pc = "PutObject"
    /\ Settle("PutObject", TRUE)
    /\ \E d \in Durations :
        /\ timingLog' = UploadTiming(timingLog, d)
        /\ Finish(UploadedResponse(config.variant, DestinationBucket, key), timingLog', byteLength)
    /\ putLog' = putLog \cup { [bucket |-> DestinationBucket, key |-> key,
                                original |-> originalImagePath,
                                descriptor |-> operationsPrefix] }
    /\ UNCHANGED <<edgeVars, config, event, originalImagePath, operationsPrefix, operationsJSON,
                   originalBucket, transformedBucket, transformedBucketRegion, contentType,
                   imageMetadata, transformedImage, byteLength, key, calls, regionalClients, requests>>

\* await regionalS3Client.send(putImageCommand) rejects: the catch block
PutObjectFail ==
    /\ pc = "PutObject"
    /\ Settle("PutObject", FALSE)
    /\ \E d \in Durations :
        /\ response' = Put(response, "error",
               UploadErrorMessage(config.variant, DestinationBucket,
                                  transformedBucketRegion, key))
        /\ timingLog' = UploadTiming(timingLog, d)
        /\ Return(sendError(500, JsObject(response'), timingLog'))
    /\ UNCHANGED <<edgeVars, config, event, originalImagePath, operationsPrefix, operationsJSON,
                   originalBucket, transformedBucket, transformedBucketRegion, contentType,
                   imageMetadata, transformedImage, byteLength, key, calls, putLog, regionalClients, requests>>

\* the invocation is over; the execution context is ready for the next event
Complete ==
    /\ pc = "done"
    /\ pc' = "idle"
    /\ event' = [header |-> Undefined, method |-> Undefined, path |-> EmptyString]
    /\ originalImagePath' = EmptyString
    /\ operationsPrefix' = EmptyString
    /\ operationsJSON' = EmptyObject
    /\ originalBucket' = Undefined
    /\ transformedBucket' = Undefined
    /\ transformedBucketRegion' = Undefined
    /\ response' = EmptyObject
    /\ timingLog' = EmptyString
    /\ contentType' = Undefined
    /\ imageMetadata' = NoOrientation
    /\ transformedImage' = <<>>
    /\ byteLength' = 0
    /\ key' = Undefined
    /\ calls' = <<>>
    /\ settled' = <<>>
    /\ outcome' = "none"
    /\ result' = NoResult
    /\ UNCHANGED <<edgeVars, config, putLog, regionalClients, requests>>

Next ==
    \/ HandlerEntry
    \/ GetObjectFail
    \/ GetObjectOk
    \/ BodyFail
    \/ BodyOk
    \/ MetadataFail
    \/ MetadataOk
    \/ ToBufferFail
    \/ ToBufferOk
    \/ PutObjectOk
    \/ PutObjectFail
    \/ Complete

Spec == Init /\ [][Next]_vars

----------------------------------------------------------------------------
(* The edge request normalizer (viewer-request function) *)

MaxParams == 2      \* query parameters in one viewer request

\* the tokens that have upper-case letters, with their lower-case form
LowerTable ==
    [ t \in {"Width", "FORMAT", "AUTO", "PNG", "WIDE"} |->
        CASE t = "Width" -> "width"
          [] t = "FORMAT" -> "format"
          [] t = "AUTO" -> "auto"
          [] t = "PNG" -> "png"
          [] t = "WIDE" -> "wide" ]

\* String.prototype.toLowerCase()
ToLowerCase(s) ==
    [ i \in 1..Len(s) |-> IF s[i] \in DOMAIN LowerTable THEN LowerTable[s[i]] ELSE s[i] ]

\* encodeURIComponent(s): the separators are escaped, letters, digits and '.' are kept
EncodeURIComponent(s) ==
    [ i \in 1..Len(s) |->
        CASE s[i] = "/" -> "%2F"
          [] s[i] = "," -> "%2C"
          [] s[i] = "=" -> "%3D"
          [] OTHER -> s[i] ]

\* String.prototype.includes(sub)
Includes(s, sub) ==
    \E i \in 0..(Len(s) - Len(sub)) : SubSeq(s, i + 1, i + Len(sub)) = sub

\* var SUPPORTED_FORMATS = ['auto', 'jpeg', 'webp', 'avif', 'png', 'svg', 'gif']
SUPPORTED_FORMATS ==
    { <<"auto">>, <<"jpeg">>, <<"webp">>, <<"avif">>, <<"png">>, <<"svg">>, <<"gif">> }

\* originalImagePath.split('.').pop().toLowerCase()
FileExtension(uri) == LET parts == Split(uri, ".") IN ToLowerCase(parts[Len(parts)])

\* the resolution of 'auto' with avif preferred over webp
ResolveAuto_AvifFirst(uri, accept) ==
    LET byExtension == IF FileExtension(uri) = <<"png">> THEN <<"png">> ELSE <<"jpeg">>
    IN IF Truthy(accept)
       THEN IF Includes(accept, <<"avif">>) THEN <<"avif">>
            ELSE IF Includes(accept, <<"webp">>) THEN <<"webp">>
            ELSE byExtension
       ELSE byExtension

\* the resolution of format 'auto': extension first, then the accept header
ResolveAuto(uri, accept) ==
    LET byExtension == IF FileExtension(uri) = <<"png">> THEN <<"png">> ELSE <<"jpeg">>
    IN IF Truthy(accept)
       THEN IF Includes(accept, <<"webp">>) THEN <<"webp">>
            ELSE IF Includes(accept, <<"avif">>) THEN <<"avif">>
            ELSE byExtension
       ELSE byExtension

\* case 'format'
NormalizeFormat(ops, value, uri, accept) ==
    IF Truthy(value) /\ ToLowerCase(value) \in SUPPORTED_FORMATS
    THEN LET format == ToLowerCase(value)
         IN Put(ops, "format", IF format = <<"auto">> THEN ResolveAuto(uri, accept) ELSE format)
    ELSE ops

\* the dimension check accepting zero
DimensionAccepted_NonNegative(n) == ~n.nan /\ n.val >= 0

\* if (!isNaN(width) && (width > 0))
DimensionAccepted(n) == ~n.nan /\ n.val > 0

\* case 'width' / case 'height'
NormalizeDimension(ops, name, value) ==
    IF Truthy(value)
    THEN LET n == ParseInt(value)
         IN IF DimensionAccepted(n) THEN Put(ops, name, NumToStr(n.val)) ELSE ops
    ELSE ops

\* the clamp lost
ClampQuality_None(q) == q

\* if (quality > 100) quality = 100
ClampQuality(q) == IF q > 100 THEN 100 ELSE q

\* case 'quality'
NormalizeQuality(ops, value) ==
    IF Truthy(value)
    THEN LET n == ParseInt(value)
         IN IF ~n.nan /\ n.val > 0 THEN Put(ops, "quality", NumToStr(ClampQuality(n.val)))
            ELSE ops
    ELSE ops

\* the body of the forEach callback: switch (operation.toLowerCase())
NormalizeOperation(ops, operation, value, uri, accept) ==
    LET name == ToLowerCase(operation)
    IN CASE name = <<"from_bucket">> -> Put(ops, "fromBucket", value)
         [] name = <<"to_bucket">> -> Put(ops, "toBucket", value)
         [] name = <<"to_bucket_path">> -> Put(ops, "toBucketPath", EncodeURIComponent(value))
         [] name = <<"to_bucket_region">> -> Put(ops, "toBucketRegion", value)
         [] name = <<"ratio">> -> Put(ops, "ratio", ToLowerCase(value))
         [] name = <<"format">> -> NormalizeFormat(ops, value, uri, accept)
         [] name = <<"width">> -> NormalizeDimension(ops, "width", value)
         [] name = <<"height">> -> NormalizeDimension(ops, "height", value)
         [] name = <<"quality">> -> NormalizeQuality(ops, value)
         [] OTHER -> ops

RECURSIVE NormalizeFrom(_, _, _, _, _)
NormalizeFrom(ops, qs, i, uri, accept) ==
    IF i > Len(qs) THEN ops
    ELSE NormalizeFrom(NormalizeOperation(ops, qs[i].name, qs[i].value, uri, accept),
                       qs, i + 1, uri, accept)

\* Object.keys(request.querystring).forEach(...)
NormalizeAll(qs, uri, accept) == NormalizeFrom(EmptyObject, qs, 1, uri, accept)

\* if (normalizedOperations.<name>) normalizedOperationsArray.push('<name>=' + ...)
Push(arr, ops, name) ==
    IF Truthy(Get(ops, name)) THEN Append(arr, <<name, "=">> \o Get(ops, name)) ELSE arr

\* the pushes of width and height exchanged
OrderedOperations_HeightFirst(ops) ==
    Push(Push(Push(Push(Push(Push(Push(Push(Push(<<>>,
        ops, "fromBucket"), ops, "toBucket"), ops, "toBucketRegion"), ops, "ratio"),
        ops, "format"), ops, "quality"), ops, "height"), ops, "width"), ops, "toBucketPath")

\* put them in order
OrderedOperations(ops) ==
    Push(Push(Push(Push(Push(Push(Push(Push(Push(<<>>,
        ops, "fromBucket"), ops, "toBucket"), ops, "toBucketRegion"), ops, "ratio"),
        ops, "format"), ops, "quality"), ops, "width"), ops, "height"), ops, "toBucketPath")

\* normalizedOperations.ratio || .format || .quality || .width || .height
HasTransform(ops) ==
    \E name \in {"ratio", "format", "quality", "width", "height"} : Truthy(Get(ops, name))

\* the rewrite leaving the uri alone when the request has no querystring
RewrittenUri_NoQueryUntouched(uri, hasQs, ops) ==
    IF hasQs
    THEN IF DOMAIN ops # {}
         THEN IF HasTransform(ops)
              THEN uri \o <<"/">> \o Join(OrderedOperations(ops), ",")
              ELSE uri \o <<"/", "original", ",">> \o Join(OrderedOperations(ops), ",")
         ELSE uri \o <<"/", "original">>
    ELSE uri

\* the rewritten request.uri; hasQs is the truthiness of request.querystring
RewrittenUri(uri, hasQs, ops) ==
    IF hasQs
    THEN IF DOMAIN ops # {}
         THEN IF HasTransform(ops)
              THEN uri \o <<"/">> \o Join(OrderedOperations(ops), ",")
              ELSE uri \o <<"/", "original", ",">> \o Join(OrderedOperations(ops), ",")
         ELSE uri \o <<"/", "original">>
    ELSE uri \o <<"/", "original">>

\* viewer requests
EdgeUris == { <<"/", "images", "/", "a", ".", "jpg">>, <<"/", "b", ".", "PNG">> }

EdgeAccepts ==
    { Undefined,
      <<"image", "/", "webp">>,
      <<"image", "/", "avif">>,
      <<"image", "/", "avif", ",", "image", "/", "webp">>,
      <<"*", "/", "*">> }

QueryParam(name, value) == [name |-> <<name>>, value |-> value]

Params ==
    { QueryParam("width", v) :
        v \in { <<"1", "0", "0">>, <<"0">>, <<"-", "5">>, <<"abc">>, <<>>, <<"1", "2", "px">> } }
    \cup { QueryParam("Width", <<"2", "0", "0">>) }
    \cup { QueryParam("height", v) : v \in { <<"5", "0">>, <<"0">> } }
    \cup { QueryParam("quality", v) :
             v \in { <<"1", "5", "0">>, <<"1", "0", "0">>, <<"8", "0">>, <<"0">>,
                     <<"-", "5">>, <<"abc">> } }
    \cup { QueryParam("format", v) :
             v \in { <<"auto">>, <<"AUTO">>, <<"webp">>, <<"PNG">>, <<"bmp">>, <<>> } }
    \cup { QueryParam("FORMAT", <<"gif">>) }
    \cup { QueryParam("from_bucket", v) : v \in { <<"a">>, <<>>, <<"a", ",", "b">> } }
    \cup { QueryParam("to_bucket", v) : v \in { <<"b">>, <<"b", "=", "c">> } }
    \cup { QueryParam("to_bucket_region", <<"eu">>) }
    \cup { QueryParam("to_bucket_path", <<"p", "/", "q">>) }
    \cup { QueryParam("ratio", v) : v \in { <<"WIDE">>, <<>>, <<"1", "/", "2">> } }
    \cup { QueryParam("foo", <<"1">>) }

\* request.querystring: an object, its keys in insertion order, no key twice
Queries ==
    UNION { { q \in [1..n -> Params] :
                \A i \in 1..n, j \in 1..n : i # j => q[i].name # q[j].name } :
            n \in 0..MaxParams }

\* the viewer requests: with a querystring object, or without one
EdgeQueries ==
    { [hasQuerystring |-> TRUE, querystring |-> q] : q \in Queries }
    \cup { [hasQuerystring |-> FALSE, querystring |-> <<>>] }

\* function handler(event): the whole function runs without suspension
EdgeHandler ==
    /\ edgePc = "idle"
    /\ \E uri \in EdgeUris, q \in EdgeQueries, accept \in EdgeAccepts :
        LET ops == IF q.hasQuerystring THEN NormalizeAll(q.querystring, uri, accept)
                   ELSE EmptyObject
        IN
        /\ edgeEvent' = [uri |-> uri, hasQuerystring |-> q.hasQuerystring,
                         querystring |-> q.querystring, accept |-> accept]
        /\ normalizedOperations' = ops
        /\ normalizedOperationsArray' =
              IF q.hasQuerystring /\ DOMAIN ops # {} THEN OrderedOperations(ops) ELSE <<>>
        /\ request' = [uri |-> RewrittenUri(uri, q.hasQuerystring, ops),
                       querystring |-> EmptyObject]
    /\ edgePc' = "returned"
    /\ UNCHANGED handlerVars

\* the returned request has been taken; the function is ready for the next event
EdgeComplete ==
    /\ edgePc = "returned"
    /\ edgePc' = "idle"
    /\ edgeEvent' = NoEdgeEvent
    /\ normalizedOperations' = EmptyObject
    /\ normalizedOperationsArray' = <<>>
    /\ request' = NoRequest
    /\ UNCHANGED handlerVars

EdgeInit == Init /\ config.variant = "multi"

EdgeNext ==
    \/ EdgeHandler
    \/ EdgeComplete

SpecEdge == EdgeInit /\ [][EdgeNext]_vars

----------------------------------------------------------------------------
(* Properties *)

\* the request being handled, read off the event independently of the handler
RequestKey ==
    CHOOSE k \in OriginalKeys : \E d \in Descriptors : event.path = <<"/">> \o k \o <<"/">> \o d
RequestDescriptor ==
    CHOOSE d \in Descriptors : \E k \in OriginalKeys : event.path = <<"/">> \o k \o <<"/">> \o d

IsTransformFragment(f) == ~(Len(f) > 0 /\ <<f[1]>> \in RoutingKeys)
TransformFragments(d) == SelectSeq(Split(d, ","), IsTransformFragment)
HasEntry(d, name) ==
    \E i \in 1..Len(Split(d, ",")) :
        LET f == Split(d, ",")[i] IN Len(f) >= 3 /\ f[1] = name /\ f[2] = "="
Contains(s, sub) ==
    \E i \in 0..(Len(s) - Len(sub)) : SubSeq(s, i + 1, i + Len(sub)) = sub
PutCalls == { i \in 1..Len(calls) : calls[i].op = "PutObject" }
Rejected(step) == \E i \in 1..Len(settled) : settled[i].step = step /\ ~settled[i].ok
Resolved(step) == \E i \in 1..Len(settled) : settled[i].step = step /\ settled[i].ok
AuthorizedGet == pc # "idle" /\ event.header = SECRET_KEY /\ event.method = <<"GET">>

\* C1: a request whose secret header is missing or differs from the
\* configured secret is answered 403 with no timing header value, and no
\* GetObject or PutObject is sent, whatever the method and the path.
C1_UnauthorizedIs403 ==
    (pc # "idle" /\ event.header # SECRET_KEY) =>
        /\ pc = "done" /\ outcome = "response"
        /\ result.statusCode = 403
        /\ result.headers.ServerTiming = Null
        /\ calls = <<>>

C1_Witness ==
    /\ pc = "done" /\ event.header = <<"wrong">> /\ event.method = <<"GET">>
    /\ result.statusCode = 403

\* C2: a GetObject or PutObject is sent only if the secret matched and the
\* method is GET; a matching secret with another method, or with no
\* requestContext, is answered 400 at once with no timing log.
C2_EntryChecksBeforeIO ==
    /\ calls # <<>> => (event.header = SECRET_KEY /\ event.method = <<"GET">>)
    /\ (pc # "idle" /\ event.header = SECRET_KEY /\ event.method # <<"GET">>) =>
          /\ pc = "done" /\ outcome = "response"
          /\ result.statusCode = 400
          /\ result.headers.ServerTiming = Null
          /\ calls = <<>> /\ settled = <<>>

C2_Witness ==
    /\ pc = "done" /\ event.header = SECRET_KEY /\ event.method = <<"POST">>
    /\ result.statusCode = 400

C4_KeyIsStrippedDescriptor ==
    config.variant = "multi" =>
        /\ \A i \in PutCalls :
              calls[i].Key = RequestKey \o <<"/">>
                               \o Join(TransformFragments(RequestDescriptor), ",")
        /\ (pc = "done" /\ Resolved("PutObject")) =>
              result.body.key = RequestKey \o <<"/">>
                                  \o Join(TransformFragments(RequestDescriptor), ",")

\* C5: for one original key, the same descriptor always gives the same
\* destination key, and descriptors that differ in a transform entry give
\* different destination keys, so that no persisted object is overwritten
\* by the result of another transform.
C5_KeyInjectiveInDescriptor ==
    \A a \in putLog, b \in putLog :
        a.original = b.original =>
            /\ a.descriptor = b.descriptor => a.key = b.key
            /\ TransformFragments(a.descriptor) # TransformFragments(b.descriptor)
                  => a.key # b.key

\* C6: in the multi-bucket variant an authorized GET whose descriptor has no
\* toBucket entry is answered 500 with the message that no destination
\* bucket was found, before any GetObject: nothing is downloaded,
\* transformed or uploaded and the timing log has no entry.
C6_NoDestinationIs500 ==
    (AuthorizedGet /\ config.variant = "multi" /\ ~HasEntry(RequestDescriptor, "toBucket")) =>
        /\ pc = "done" /\ outcome = "response"
        /\ result.statusCode = 500
        /\ "error" \in DOMAIN result.body
        /\ result.body.error = <<"Transformed bucket not found !">>
        /\ calls = <<>> /\ settled = <<>> /\ transformedImage = <<>>
        /\ result.headers.ServerTiming = EmptyString

C6_Witness ==
    /\ pc = "done" /\ config.variant = "multi" /\ event.header = SECRET_KEY
    /\ event.method = <<"GET">>
    /\ RequestDescriptor = FromA \o <<",">> \o W100
    /\ result.statusCode = 500

\* C7: every failure of an I/O or codec step (GetObject, reading the body,
\* decoding and reading the metadata, the transform, PutObject) ends the
\* request with a response of status 500; a request never ends with an
\* uncaught exception, and every status is one of 200, 400, 403, 413, 500.
C7_FailuresAre500 ==
    /\ (\E i \in 1..Len(settled) : ~settled[i].ok) =>
          (pc = "done" /\ outcome = "response" /\ result.statusCode = 500)
    /\ pc = "done" =>
          (outcome = "response" /\ result.statusCode \in {200, 400, 403, 413, 500})

\* C8: when the GetObject for the original fails, the status is 500, the
\* body carries the original's bucket and key and an error message, and no
\* transform step and no PutObject is executed for that request.
C8_DownloadFailureIs500 ==
    Rejected("GetObject") =>
        /\ pc = "done" /\ outcome = "response"
        /\ result.statusCode = 500
        /\ {"bucket", "key", "error"} \subseteq DOMAIN result.body
        /\ result.body.bucket = calls[1].Bucket
        /\ result.body.key = RequestKey
        /\ calls[1].Key = RequestKey
        /\ Truthy(result.body.error)
        /\ transformedImage = <<>>
        /\ Len(calls) = 1 /\ Len(settled) = 1

C8_Witness ==
    /\ pc = "done" /\ Rejected("GetObject") /\ result.statusCode = 500
    /\ RequestKey = <<"images", "/", "a", ".", "jpg">>

\* C9: when the PutObject succeeds the status is 200 and the body's bucket
\* and key are those that were written; in the multi-bucket variant the body
\* has transformed = true, and transformed = true is in a response only if a
\* PutObject succeeded in that request.
C9_UploadSuccessIs200 ==
    /\ Resolved("PutObject") =>
          /\ pc = "done" /\ outcome = "response"
          /\ result.statusCode = 200
          /\ \A i \in PutCalls :
                /\ result.body.bucket = calls[i].Bucket
                /\ result.body.key = calls[i].Key
                /\ calls[i].Key # RequestKey
          /\ PutCalls # {}
          /\ config.variant = "multi" =>
                ("transformed" \in DOMAIN result.body /\ result.body.transformed = TRUE)
    /\ (outcome = "response" /\ "transformed" \in DOMAIN result.body
            /\ result.body.transformed = TRUE) => Resolved("PutObject")

C9_Witness ==
    /\ pc = "done" /\ config.variant = "multi" /\ Resolved("PutObject")
    /\ result.statusCode = 200 /\ result.body.transformed = TRUE

\* C10: when the PutObject fails the status is 500, the error message names
\* the destination bucket and the destination key, the body's bucket and key
\* stay those of the original, and the write is not attempted again.
C10_UploadFailureIs500 ==
    Rejected("PutObject") =>
        /\ pc = "done" /\ outcome = "response"
        /\ result.statusCode = 500
        /\ Cardinality(PutCalls) = 1
        /\ \A i \in PutCalls :
              /\ Contains(result.body.error, calls[i].Bucket)
              /\ Contains(result.body.error, calls[i].Key)
        /\ result.body.bucket = calls[1].Bucket
        /\ result.body.key = RequestKey
        /\ calls[1].op = "GetObject" /\ calls[1].Key = RequestKey

C10_Witness ==
    /\ pc = "done" /\ Rejected("PutObject") /\ result.statusCode = 500
    /\ config.variant = "fixed"

----------------------------------------------------------------------------
(* Properties of the edge request normalizer *)

EdgeReturned == edgePc = "returned"

\* the values given to a parameter, its name compared case-insensitively
GivenValues(name) ==
    { edgeEvent.querystring[i].value :
        i \in { j \in 1..Len(edgeEvent.querystring) :
                  ToLowerCase(edgeEvent.querystring[j].name) = <<name>> } }

\* the entries pushed for a key, and the value of an entry
EntriesOf(name) ==
    { i \in 1..Len(normalizedOperationsArray) : normalizedOperationsArray[i][1] = name }
EntryValue(i) == SubSeq(normalizedOperationsArray[i], 3, Len(normalizedOperationsArray[i]))

\* what follows '<uri>/' in the rewritten uri
EmittedSegment ==
    SubSeq(request.uri, Len(edgeEvent.uri) + 2, Len(request.uri))

Orderings(n) ==
    { p \in [1..n -> 1..n] : \A i \in 1..n, j \in 1..n : i # j => p[i] # p[j] }

\* C11: the rewritten path does not depend on the order of the query
\* parameters: every ordering of the same parameters gives the same path.
C11_OrderIndependent ==
    (EdgeReturned /\ edgeEvent.hasQuerystring) =>
        \A p \in Orderings(Len(edgeEvent.querystring)) :
            LET qs == [i \in 1..Len(edgeEvent.querystring) |-> edgeEvent.querystring[p[i]]]
            IN RewrittenUri(edgeEvent.uri, TRUE,
                            NormalizeAll(qs, edgeEvent.uri, edgeEvent.accept)) = request.uri

CanonicalOrder ==
    << "fromBucket", "toBucket", "toBucketRegion", "ratio", "format", "quality",
       "width", "height", "toBucketPath" >>
CanonicalIndex(name) == CHOOSE i \in 1..Len(CanonicalOrder) : CanonicalOrder[i] = name

\* C12: the entries of an emitted descriptor are key=value with the keys in
\* the order fromBucket, toBucket, toBucketRegion, ratio, format, quality,
\* width, height, toBucketPath, each at most once; a key is there exactly
\* when it has an accepted (non-empty) value.
C12_CanonicalKeyOrder ==
    EdgeReturned =>
        LET arr == normalizedOperationsArray IN
        /\ \A i \in 1..Len(arr) :
              /\ Len(arr[i]) >= 3 /\ arr[i][2] = "="
              /\ \E c \in 1..Len(CanonicalOrder) : CanonicalOrder[c] = arr[i][1]
              /\ EntryValue(i) = normalizedOperations[arr[i][1]]
        /\ \A i \in 1..Len(arr), j \in 1..Len(arr) :
              i < j => CanonicalIndex(arr[i][1]) < CanonicalIndex(arr[j][1])
        /\ \A c \in 1..Len(CanonicalOrder) :
              (EntriesOf(CanonicalOrder[c]) # {}) <=>
                 (CanonicalOrder[c] \in DOMAIN normalizedOperations
                    /\ normalizedOperations[CanonicalOrder[c]] # EmptyString)
        /\ \/ EmittedSegment = Join(arr, ",")
           \/ EmittedSegment = <<"original", ",">> \o Join(arr, ",")
           \/ (arr = <<>> /\ EmittedSegment = <<"original">>)

C12_Witness ==
    /\ EdgeReturned
    /\ edgeEvent.querystring = << QueryParam("height", <<"5", "0">>),
                                  QueryParam("from_bucket", <<"a">>) >>
    /\ EmittedSegment = <<"fromBucket", "=", "a", ",", "height", "=", "5", "0">>

TransformNames == {"ratio", "format", "quality", "width", "height"}
RoutingParams == { <<"from_bucket">>, <<"to_bucket">>, <<"to_bucket_region">>,
                   <<"to_bucket_path">> }
TransformAccepted ==
    \E name \in TransformNames :
        name \in DOMAIN normalizedOperations /\ normalizedOperations[name] # EmptyString
RoutingPresent ==
    \E i \in 1..Len(edgeEvent.querystring) :
        ToLowerCase(edgeEvent.querystring[i].name) \in RoutingParams

\* C13: the rewritten path is '<path>/<descriptor>' if one of ratio, format,
\* quality, width, height was accepted; '<path>/original,<routing>' if only
\* routing parameters were present; '<path>/original' if no parameter was
\* recognized or there is no query string.
C13_ThreeCases ==
    EdgeReturned =>
        /\ TransformAccepted =>
              request.uri = edgeEvent.uri \o <<"/">> \o Join(normalizedOperationsArray, ",")
        /\ (~TransformAccepted /\ RoutingPresent) =>
              request.uri = edgeEvent.uri \o <<"/", "original", ",">>
                              \o Join(normalizedOperationsArray, ",")
        /\ (~TransformAccepted /\ ~RoutingPresent) =>
              request.uri = edgeEvent.uri \o <<"/", "original">>

\* a value that parses to a strictly positive integer
ParsesPositive(v) == v # EmptyString /\ ~ParseInt(v).nan /\ ParseInt(v).val > 0

DimensionKept(param, name) ==
    /\ (EntriesOf(name) # {}) <=> (\E v \in GivenValues(param) : ParsesPositive(v))
    /\ \A i \in EntriesOf(name) :
          \E v \in GivenValues(param) :
              ParsesPositive(v) /\ EntryValue(i) = NumToStr(ParseInt(v).val)

\* C14: width, and likewise height, is kept only if its value parses to a
\* strictly positive integer, and is emitted as that integer in decimal;
\* with any other value (0, negative, non-numeric, empty) the key is absent.
C14_DimensionsPositive ==
    (EdgeReturned /\ edgeEvent.hasQuerystring) =>
        /\ DimensionKept("width", "width")
        /\ DimensionKept("height", "height")

C14_Witness ==
    /\ EdgeReturned
    /\ edgeEvent.querystring = << QueryParam("width", <<"0">>),
                                  QueryParam("height", <<"5", "0">>) >>
    /\ EmittedSegment = <<"height", "=", "5", "0">>

\* C15: an emitted quality is an integer in 1..100: above 100 it is emitted
\* as 100, in 1..100 unchanged, and 0, negative or non-numeric is dropped.
C15_QualityClamped ==
    (EdgeReturned /\ edgeEvent.hasQuerystring) =>
        /\ (EntriesOf("quality") # {}) <=> (\E v \in GivenValues("quality") : ParsesPositive(v))
        /\ \A i \in EntriesOf("quality") :
              /\ ~ParseInt(EntryValue(i)).nan
              /\ ParseInt(EntryValue(i)).val \in 1..100
              /\ NumToStr(ParseInt(EntryValue(i)).val) = EntryValue(i)
              /\ \E v \in GivenValues("quality") :
                    /\ ParsesPositive(v)
                    /\ ParseInt(v).val > 100 => EntryValue(i) = <<"1", "0", "0">>
                    /\ ParseInt(v).val <= 100 => EntryValue(i) = NumToStr(ParseInt(v).val)

C15_Witness ==
    /\ EdgeReturned
    /\ edgeEvent.querystring = << QueryParam("quality", <<"1", "5", "0">>) >>
    /\ EmittedSegment = <<"quality", "=", "1", "0", "0">>

SupportedLower == {"auto", "jpeg", "webp", "avif", "png", "svg", "gif"}
FormatSupported(v) == Len(v) = 1 /\ ToLowerCase(v)[1] \in SupportedLower
UriIsPng ==
    /\ Len(edgeEvent.uri) >= 2
    /\ edgeEvent.uri[Len(edgeEvent.uri) - 1] = "."
    /\ edgeEvent.uri[Len(edgeEvent.uri)] \in {"png", "PNG"}
AcceptMentions(t) ==
    /\ edgeEvent.accept # Undefined
    /\ \E i \in 1..Len(edgeEvent.accept) : edgeEvent.accept[i] = t
ExpectedFormat(v) ==
    IF ToLowerCase(v) # <<"auto">> THEN ToLowerCase(v)
    ELSE IF AcceptMentions("webp") THEN <<"webp">>
    ELSE IF AcceptMentions("avif") THEN <<"avif">>
    ELSE IF UriIsPng THEN <<"png">>
    ELSE <<"jpeg">>

\* C16: a format is accepted only if, case-insensitively, it is one of auto,
\* jpeg, webp, avif, png, svg, gif; 'auto' resolves to webp if the accept
\* header mentions webp, else avif if it mentions avif, else png for a png
\* path, else jpeg; 'auto' is never emitted.
C16_FormatResolution ==
    (EdgeReturned /\ edgeEvent.hasQuerystring) =>
        /\ (EntriesOf("format") # {}) <=> (\E v \in GivenValues("format") : FormatSupported(v))
        /\ \A i \in EntriesOf("format") :
              /\ EntryValue(i) # <<"auto">>
              /\ \E v \in GivenValues("format") :
                    FormatSupported(v) /\ EntryValue(i) = ExpectedFormat(v)
              /\ Cardinality(GivenValues("format")) = 1 =>
                    \A v \in GivenValues("format") : EntryValue(i) = ExpectedFormat(v)

C16_Witness ==
    /\ EdgeReturned
    /\ edgeEvent.uri = <<"/", "images", "/", "a", ".", "jpg">>
    /\ edgeEvent.accept = <<"image", "/", "avif", ",", "image", "/", "webp">>
    /\ edgeEvent.querystring = << QueryParam("format", <<"AUTO">>) >>
    /\ EmittedSegment = <<"format", "=", "webp">>

\* C17: the returned request always has an empty query string, and with no
\* query parameters the rewritten path is the original path followed by
\* '/original'.
C17_QueryCleared ==
    EdgeReturned =>
        /\ request.querystring = EmptyObject
        /\ (~edgeEvent.hasQuerystring \/ edgeEvent.querystring = <<>>) =>
              request.uri = edgeEvent.uri \o <<"/", "original">>

C17_Witness ==
    /\ EdgeReturned /\ ~edgeEvent.hasQuerystring
    /\ request.uri = <<"/", "b", ".", "PNG", "/", "original">>
    /\ request.querystring = EmptyObject

----------------------------------------------------------------------------
(* Properties of the timing log and of the S3 commands of one request *)

AllPhases == << "img-download;dur", "img-transform;dur", "img-upload;dur" >>

\* the entries of a Server-Timing value, and the phase names in it
TimingEntries(log) == IF log = EmptyString THEN <<>> ELSE Split(log, ",")
PhaseNames(log) == [i \in 1..Len(TimingEntries(log)) |-> TimingEntries(log)[i][1]]
WellFormedEntry(e) ==
    /\ Len(e) >= 3 /\ e[2] = "="
    /\ \E i \in 1..Len(AllPhases) : AllPhases[i] = e[1]
    /\ \A i \in 3..Len(e) : e[i] \in Digit
IsPrefix(a, b) == Len(a) <= Len(b) /\ SubSeq(b, 1, Len(a)) = a

GetCalls == { i \in 1..Len(calls) : calls[i].op = "GetObject" }

TimingLogShape ==
    /\ \A i \in 1..Len(TimingEntries(timingLog)) : WellFormedEntry(TimingEntries(timingLog)[i])
    /\ IsPrefix(PhaseNames(timingLog), AllPhases)
    /\ Len(PhaseNames(timingLog)) = 3 => PutCalls # {}

\* C18: in every state of a request the timing log is a prefix of
\* img-download, img-transform, img-upload (each phase at most once, in that
\* order), every step of the request only appends to it, and img-upload is
\* in it only if a PutObject was sent in that request.
C18_TimingLogPrefix ==
    /\ [] TimingLogShape
    /\ [][pc' # "idle" => IsPrefix(timingLog, timingLog')]_vars

C18_Witness ==
    /\ pc = "done" /\ outcome = "response" /\ result.statusCode = 200
    /\ PhaseNames(timingLog) = AllPhases
    /\ result.headers.ServerTiming = timingLog
    /\ PutCalls # {}

\* C19: a request that fails inside a phase returns a timing log that ends
\* with that phase's entry after the entries of the earlier phases: a
\* failure of the download (GetObject, body read, metadata) returns
\* [img-download], of the transform [img-download, img-transform], of the
\* upload all three.
C19_FailureLogsItsPhase ==
    LET returned == PhaseNames(result.headers.ServerTiming) IN
    /\ (Rejected("GetObject") \/ Rejected("Body") \/ Rejected("Metadata")) =>
          (pc = "done" /\ outcome = "response"
             /\ result.headers.ServerTiming # Null /\ returned = SubSeq(AllPhases, 1, 1))
    /\ Rejected("ToBuffer") =>
          (pc = "done" /\ outcome = "response" /\ returned = SubSeq(AllPhases, 1, 2))
    /\ Rejected("PutObject") =>
          (pc = "done" /\ outcome = "response" /\ returned = AllPhases)

----------------------------------------------------------------------------
(* Properties of the store clients *)

ClientsOf(n) == { i \in 1..Len(regionalClients) : regionalClients[i].request = n }

RegionalUpload ==
    config.variant = "multi" /\ PutCalls # {} /\ Truthy(transformedBucketRegion)

\* the PutObject goes through the client of toBucketRegion when the descriptor
\* carries one and through the shared client otherwise; the GetObject always
\* goes through the shared client
UploadRouting ==
    /\ \A j \in PutCalls :
          calls[j].client = (IF config.variant = "multi" /\ Truthy(transformedBucketRegion)
                             THEN transformedBucketRegion ELSE <<"default">>)
    /\ \A i \in GetCalls : calls[i].client = <<"default">>

\* C21 (as stated): the PutObject is routed by toBucketRegion, the shared
\* client is never replaced, and over any sequence of requests a regional
\* client is created at most once per distinct region.
C21_ClientOncePerRegion ==
    /\ UploadRouting
    /\ \A i \in 1..Len(regionalClients), j \in 1..Len(regionalClients) :
          i # j => regionalClients[i].region # regionalClients[j].region

\* C21 (amended): the PutObject is routed by toBucketRegion, the shared
\* client is never replaced, and a regional client is created by every
\* request that sends a PutObject with a toBucketRegion: exactly one by such
\* a request, for its region, and none by any other request.
C21_ClientPerRegionalUpload ==
    /\ UploadRouting
    /\ \A n \in 1..requests : Cardinality(ClientsOf(n)) <= 1
    /\ \A i \in 1..Len(regionalClients) : regionalClients[i].request \in 1..requests
    /\ pc # "idle" =>
          /\ (ClientsOf(requests) # {}) <=> RegionalUpload
          /\ \A i \in ClientsOf(requests) :
                regionalClients[i].region = transformedBucketRegion
    /\ config.variant = "fixed" => regionalClients = <<>>

C21_Witness ==
    /\ pc = "done" /\ Resolved("PutObject") /\ requests = 2
    /\ Len(regionalClients) = 2
    /\ regionalClients[1].region = regionalClients[2].region
    /\ calls[2].client = regionalClients[2].region

----------------------------------------------------------------------------
(* Properties of the staged transform *)

RecognizedFormats == { <<"jpeg">>, <<"gif">>, <<"webp">>, <<"png">>, <<"avif">> }
LossyFormats == { <<"jpeg">>, <<"webp">>, <<"avif">> }

\* the transform has been staged in the current request
Staged == pc \in {"ToBuffer", "PutObject", "done"} /\ Resolved("Metadata")

FormatSteps(image) == { i \in 1..Len(image) : image[i].op = "toFormat" }

\* C22: when the descriptor's format is absent or is not one of jpeg, gif,
\* webp, png, avif, staging the transform leaves the content-type of the
\* download unchanged and applies no format conversion, and that
\* content-type is the one written to the destination.
C22_UnknownFormatKeepsContentType ==
    /\ [] (\A j \in PutCalls : calls[j].ContentType = contentType)
    /\ [][ (pc = "Metadata" /\ pc' = "ToBuffer"
              /\ Get(operationsJSON', <<"format">>) \notin RecognizedFormats) =>
           (contentType' = contentType /\ FormatSteps(transformedImage') = {}) ]_vars

\* C23: the quality is given to the encoder only when the requested format
\* is one of jpeg, webp, avif; with png or gif and a quality entry the
\* conversion is staged without any option.
C23_QualityOnlyForLossy ==
    Staged =>
        LET format == Get(operationsJSON, <<"format">>)
            quality == Get(operationsJSON, <<"quality">>)
        IN \A i \in FormatSteps(transformedImage) :
              /\ transformedImage[i].format = format
              /\ (transformedImage[i].options # EmptyObject) =>
                    /\ format \in LossyFormats
                    /\ transformedImage[i].options = [quality |-> ParseInt(quality)]
              /\ (format \in LossyFormats /\ Truthy(quality)) =>
                    transformedImage[i].options # EmptyObject
              /\ (format \in {<<"png">>, <<"gif">>}) =>
                    transformedImage[i].options = EmptyObject


RotateSteps(image) == { i \in 1..Len(image) : image[i].op = "rotate" }

\* C24 (as stated): the auto-rotate step is staged exactly when the
\* orientation metadata is present and is not the default orientation 1.
C24_RotateWhenNonDefault ==
    Staged =>
        ((RotateSteps(transformedImage) # {}) <=>
            (imageMetadata # NoOrientation /\ imageMetadata # 1))

\* C24 (amended): the auto-rotate step is staged, once, exactly when the
\* orientation metadata is present, the default orientation 1 included; it
\* is not staged when the orientation is absent.
C24_RotateWhenPresent ==
    Staged =>
        /\ (RotateSteps(transformedImage) # {}) <=> (imageMetadata # NoOrientation)
        /\ Cardinality(RotateSteps(transformedImage)) <= 1
        /\ \A i \in RotateSteps(transformedImage) :
              i = 3 /\ transformedImage[2].op = "resize"

C24_Witness ==
    /\ Staged /\ imageMetadata = 1
    /\ transformedImage[3] = [op |-> "rotate"]

----------------------------------------------------------------------------
(* Properties of the two stages together *)

\* the keys the normalizer accepted with a value
AcceptedKeys ==
    { k \in DOMAIN normalizedOperations : normalizedOperations[k] # EmptyString }

\* C26: decoding the rewritten path as the multi-bucket handler does (split
\* on '/', last segment split on ',' then '=') gives back the normalizer's
\* path without its leading '/' as the original key, and exactly the
\* key/value entries the normalizer accepted (next to the 'original' mark).
C26_RoundTrip ==
    EdgeReturned =>
        LET ops == DecodeOperations(PathOperationsPrefix(request.uri)) IN
        /\ PathOriginalImagePath(request.uri) = Tail(edgeEvent.uri)
        /\ (DOMAIN ops) \ {<<"original">>} = { <<k>> : k \in AcceptedKeys }
        /\ \A k \in AcceptedKeys : Get(ops, <<k>>) = normalizedOperations[k]

LastSegment == LET parts == Split(request.uri, "/") IN parts[Len(parts)]

KeyValueFragment(f) ==
    /\ Len(f) >= 3
    /\ f[1] \notin {"=", ",", "/"}
    /\ f[2] = "="

\* C27: the last segment of the rewritten path is exactly 'original', or a
\* comma-separated list without empty fragment or trailing comma, whose
\* first fragment may be 'original' and whose other fragments are key=value
\* with a non-empty value.
C27_LastSegmentWellFormed ==
    EdgeReturned =>
        \/ LastSegment = <<"original">>
        \/ LET fragments == Split(LastSegment, ",") IN
           \A i \in 1..Len(fragments) :
              /\ fragments[i] # EmptyString
              /\ \/ (i = 1 /\ fragments[i] = <<"original">>)
                 \/ KeyValueFragment(fragments[i])

====
